---- MODULE Spec2Model ----
(***************************************************************************)
(* A model of the tiny-face-detector-js detection engine:                  *)
(*   js/image.js     computeIntegralImage, rectSum                         *)
(*   js/haar.js      evaluateFeature, evaluateStage, evaluateCascade       *)
(*   js/detector.js  detectFaces, nonMaximumSuppression, computeIOU        *)
(*   js/main.js      startDetection, processLoop, calculateIoU,            *)
(*                   selectBestFace                                        *)
(*                                                                         *)
(* Typed arrays are sequences read through a zero-based index; a read      *)
(* outside the array yields JavaScript's undefined, which the arithmetic   *)
(* that follows turns into NaN.  Numbers are records [nan, val].           *)
(* Non-integer quantities (the scale, the IoU, the normalised feature      *)
(* value) are kept as exact fractions and compared by cross-multiplying.   *)
(***************************************************************************)
EXTENDS Integers, Sequences, FiniteSets, TLC

VARIABLES
  gray, width, height, ii, ii2,             \* image.js: the image and its tables
  rq, rres, rres2, rreads,                  \* the last rectSum call and what it read
  nmsIn, nmsOut, nmsDone,                   \* nonMaximumSuppression: argument, result
  running, started, frameCount,             \* main.js module state
  currentFaceBox, frameDetections, previousBox,
  cascade, features, options,               \* detectFaces arguments
  pc, scale, winW, winH, wx, wy,            \* detectFaces locals
  detections, outcome, result,
  evalCount, scaleIters, lastEval           \* observers of the scan

imgVars   == <<gray, width, height, ii, ii2>>
rectVars  == <<rq, rres, rres2, rreads>>
nmsVars   == <<nmsIn, nmsOut, nmsDone>>
trackVars == <<running, started, frameCount, currentFaceBox, frameDetections, previousBox>>
scanVars  == <<cascade, features, options, pc, scale, winW, winH, wx, wy,
               detections, outcome, result, evalCount, scaleIters, lastEval>>
vars      == <<imgVars, rectVars, nmsVars, trackVars, scanVars>>

----------------------------------------------------------------------------
(* Bounds of the model.                                                    *)

\* largest pixel intensity of an enumerated image
MaxPix == 2
\* longest detection list handed to nonMaximumSuppression
MaxDets == 3
\* longest detection list of one processed frame
MaxFrameDets == 2
\* number of animation frames followed
MaxFrames == 11
\* number of passes through the head of the scale loop that are followed
MaxScaleIters == 9

----------------------------------------------------------------------------
(* Arithmetic helpers.                                                     *)

Max(a, b) == IF a >= b THEN a ELSE b
Min(a, b) == IF a <= b THEN a ELSE b

\* Math.round of the non-negative fraction n/d: floor(n/d + 1/2)
Round(n, d) == (2 * n + d) \div (2 * d)

\* Math.floor of the non-negative fraction n/d
Floor(n, d) == n \div d

Elems(d) == {d[i] : i \in 1..Len(d)}

Num(v) == [nan |-> FALSE, val |-> v]
NaN    == [nan |-> TRUE, val |-> 0]

RECURSIVE SumOver(_, _)
SumOver(S, f) ==
  IF S = {} THEN 0
  ELSE LET e == CHOOSE e \in S : TRUE IN f[e] + SumOver(S \ {e}, f)

----------------------------------------------------------------------------
(* js/image.js                                                             *)

\* a[i] of a typed array: undefined outside 0 .. length-1
Read(a, i) == IF i >= 0 /\ i < Len(a) THEN Num(a[i + 1]) ELSE NaN

\* the two nested loops of computeIntegralImage over one table, in row-major
\* order: rowSum restarts with each row, and the entry above is added
RECURSIVE Build(_, _, _, _, _, _)
Build(g, w, h, idx, rowSum, acc) ==
  IF idx = w * h THEN acc
  ELSE LET x  == idx % w
           y  == idx \div w
           rs == (IF x = 0 THEN 0 ELSE rowSum) + g[idx + 1]
           up == IF y > 0 THEN acc[(y - 1) * w + x + 1] ELSE 0
       IN Build(g, w, h, idx + 1, rs, Append(acc, rs + up))

Squares(g) == [i \in 1..Len(g) |-> g[i] * g[i]]

computeIntegralImage(g, w, h) ==
  [ii |-> Build(g, w, h, 0, 0, <<>>), ii2 |-> Build(Squares(g), w, h, 0, 0, <<>>)]

\* rectSum with the far corner taken one past the rectangle
rectSumFarCorner(t, w, x, y, rw, rh) ==
  IF x < 0 \/ y < 0 \/ rw <= 0 \/ rh <= 0 THEN Num(0)
  ELSE LET x2 == x + rw
           y2 == y + rh
           D  == Read(t, y2 * w + x2)
           C  == IF x > 0 THEN Read(t, y2 * w + (x - 1)) ELSE Num(0)
           B  == IF y > 0 THEN Read(t, (y - 1) * w + x2) ELSE Num(0)
           A  == IF x > 0 /\ y > 0 THEN Read(t, (y - 1) * w + (x - 1)) ELSE Num(0)
       IN IF D.nan \/ C.nan \/ B.nan \/ A.nan THEN NaN
          ELSE Num(D.val - B.val - C.val + A.val)

rectSum(t, w, x, y, rw, rh) ==
  IF x < 0 \/ y < 0 \/ rw <= 0 \/ rh <= 0 THEN Num(0)
  ELSE LET x2 == x + rw - 1
           y2 == y + rh - 1
       IN IF x2 < 0 \/ y2 < 0 THEN Num(0)
          ELSE LET D == Read(t, y2 * w + x2)
                   C == IF x > 0 THEN Read(t, y2 * w + (x - 1)) ELSE Num(0)
                   B == IF y > 0 THEN Read(t, (y - 1) * w + x2) ELSE Num(0)
                   A == IF x > 0 /\ y > 0 THEN Read(t, (y - 1) * w + (x - 1))
                        ELSE Num(0)
               IN IF D.nan \/ C.nan \/ B.nan \/ A.nan THEN NaN
                  ELSE Num(D.val - B.val - C.val + A.val)

\* the table cells rectSum reads for this rectangle: row, column and flat index
rectSumReads(w, x, y, rw, rh) ==
  IF x < 0 \/ y < 0 \/ rw <= 0 \/ rh <= 0 THEN {}
  ELSE LET x2 == x + rw - 1
           y2 == y + rh - 1
           cell(r, c) == [row |-> r, col |-> c, idx |-> r * w + c]
       IN IF x2 < 0 \/ y2 < 0 THEN {}
          ELSE {cell(y2, x2)}
               \cup (IF x > 0 THEN {cell(y2, x - 1)} ELSE {})
               \cup (IF y > 0 THEN {cell(y - 1, x2)} ELSE {})
               \cup (IF x > 0 /\ y > 0 THEN {cell(y - 1, x - 1)} ELSE {})

----------------------------------------------------------------------------
(* Values of the variables an operation under study does not use.          *)

NoImage ==
  /\ gray = <<>> /\ width = 0 /\ height = 0 /\ ii = <<>> /\ ii2 = <<>>
NoRectCall ==
  /\ rq = <<>> /\ rres = Num(0) /\ rres2 = Num(0) /\ rreads = {}
NoNms ==
  /\ nmsIn = <<>> /\ nmsOut = <<>> /\ nmsDone = FALSE
\* main.js lines 12-14: running = false, frameCount = 0, currentFaceBox = null
NoTrack ==
  /\ running = FALSE /\ started = FALSE /\ frameCount = 0
  /\ currentFaceBox = <<>> /\ frameDetections = <<>> /\ previousBox = <<>>
NoScan ==
  /\ cascade = <<>> /\ features = <<>> /\ options = <<>>
  /\ pc = "idle" /\ scale = <<1, 1>> /\ winW = 0 /\ winH = 0 /\ wx = 0 /\ wy = 0
  /\ detections = <<>> /\ outcome = "none" /\ result = <<>>
  /\ evalCount = 0 /\ scaleIters = 0 /\ lastEval = <<>>

----------------------------------------------------------------------------
(* Images.                                                                 *)

\* every image of these sizes with intensities 0 .. MaxPix
EnumDims == {<<1, 1>>, <<2, 1>>, <<1, 2>>, <<2, 2>>}
\* larger images carry a ramp that shifts from row to row
RampDims == {<<3, 2>>, <<2, 3>>, <<3, 3>>}

Ramp(w, h, k) == [i \in 1..(w * h) |-> (k * i + (i - 1) \div w) % (MaxPix + 1)]

Images ==
  {[w |-> d[1], h |-> d[2], g |-> g] :
      d \in EnumDims, g \in UNION {[1..(e[1] * e[2]) -> 0..MaxPix] : e \in EnumDims}}
  \cup {[w |-> d[1], h |-> d[2], g |-> Ramp(d[1], d[2], k)] : d \in RampDims, k \in 1..MaxPix}

WellFormed(im) == Len(im.g) = im.w * im.h

\* the sum of the pixels of a rectangle, pixel by pixel
DirectSum(g, w, x, y, rw, rh) ==
  LET cells == {<<c, r>> : c \in x..(x + rw - 1), r \in y..(y + rh - 1)}
  IN SumOver(cells, [p \in cells |-> g[p[2] * w + p[1] + 1]])

----------------------------------------------------------------------------
(* SpecRect: computeIntegralImage, then rectSum over both tables.          *)

InitRect ==
  /\ \E im \in {i \in Images : WellFormed(i)} :
       /\ gray = im.g /\ width = im.w /\ height = im.h
  /\ ii = <<>> /\ ii2 = <<>>
  /\ NoRectCall /\ NoNms /\ NoTrack /\ NoScan

BuildTables ==
  /\ gray # <<>> /\ ii = <<>>
  /\ LET t == computeIntegralImage(gray, width, height)
     IN ii' = t.ii /\ ii2' = t.ii2
  /\ UNCHANGED <<gray, width, height, rectVars, nmsVars, trackVars, scanVars>>

\* one call per run: rectSum keeps no state between calls
RectSumCall ==
  /\ ii # <<>> /\ rq = <<>>
  /\ \E x \in -1..width, y \in -1..height,
        rw \in -1..(width + 1), rh \in -1..(height + 1) :
       /\ rq' = <<[x |-> x, y |-> y, w |-> rw, h |-> rh]>>
       /\ rres' = rectSum(ii, width, x, y, rw, rh)
       /\ rres2' = rectSum(ii2, width, x, y, rw, rh)
       /\ rreads' = rectSumReads(width, x, y, rw, rh)
  /\ UNCHANGED <<imgVars, nmsVars, trackVars, scanVars>>

NextRect == BuildTables \/ RectSumCall

SpecRect == InitRect /\ [][NextRect]_vars

RectInside(q) ==
  /\ q.x >= 0 /\ q.y >= 0 /\ q.w >= 1 /\ q.h >= 1
  /\ q.x + q.w <= width /\ q.y + q.h <= height

\* C3: every cell rectSum reads lies in the table and in a column of the
\* image, and a rectangle with non-positive extent or with its origin outside
\* the image sums to 0.
C3_RectSumStaysInTable ==
  rq # <<>> =>
    LET q == rq[1] IN
    /\ \A c \in rreads : c.idx >= 0 /\ c.idx < width * height /\ c.col < width
    /\ (q.w <= 0 \/ q.h <= 0 \/ q.x < 0 \/ q.y < 0 \/ q.x >= width \/ q.y >= height)
         => (rres = Num(0) /\ rres2 = Num(0))

\* C4: for a rectangle inside the image rectSum over ii is the sum of its
\* pixels and over ii2 the sum of their squares, and splitting the rectangle
\* by a vertical or a horizontal cut gives two sums that add up to it.
C4_RectSumIsPixelSum ==
  (rq # <<>> /\ RectInside(rq[1])) =>
    LET q == rq[1]
        S(t, x, y, rw, rh) == rectSum(t, width, x, y, rw, rh)
    IN
    /\ rres = Num(DirectSum(gray, width, q.x, q.y, q.w, q.h))
    /\ rres2 = Num(DirectSum(Squares(gray), width, q.x, q.y, q.w, q.h))
    /\ \A t \in {ii, ii2} :
         /\ \A k \in 1..(q.w - 1) :
              S(t, q.x, q.y, k, q.h).val + S(t, q.x + k, q.y, q.w - k, q.h).val
                = S(t, q.x, q.y, q.w, q.h).val
         /\ \A k \in 1..(q.h - 1) :
              S(t, q.x, q.y, q.w, k).val + S(t, q.x, q.y + k, q.w, q.h - k).val
                = S(t, q.x, q.y, q.w, q.h).val

C4_Witness ==
  /\ rq # <<>> /\ RectInside(rq[1])
  /\ rq[1].x > 0 /\ rq[1].y > 0 /\ rq[1].w >= 2 /\ rq[1].h >= 2
  /\ rres.val > 0 /\ rres2.val > rres.val

----------------------------------------------------------------------------
(* js/detector.js: nonMaximumSuppression and computeIOU.                   *)
(* A box is a record with x, y, w, h; a ratio is a pair <<n, d>>, d > 0.   *)

\* overlapThreshold = 0.3
OverlapThresholdNum == 3
OverlapThresholdDen == 10

Area(b) == b.w * b.h

RatioGreater(p, q) == p[1] * q[2] > q[1] * p[2]
RatioLess(p, q)    == p[1] * q[2] < q[1] * p[2]

\* computeIOU dividing by the sum of the two areas
computeIOUSumOfAreas(boxA, boxB) ==
  LET xA == Max(boxA.x, boxB.x)
      yA == Max(boxA.y, boxB.y)
      xB == Min(boxA.x + boxA.w, boxB.x + boxB.w)
      yB == Min(boxA.y + boxA.h, boxB.y + boxB.h)
      interArea == Max(0, xB - xA) * Max(0, yB - yA)
  IN IF interArea = 0 THEN <<0, 1>>
     ELSE <<interArea, Area(boxA) + Area(boxB)>>

computeIOU(boxA, boxB) ==
  LET xA == Max(boxA.x, boxB.x)
      yA == Max(boxA.y, boxB.y)
      xB == Min(boxA.x + boxA.w, boxB.x + boxB.w)
      yB == Min(boxA.y + boxA.h, boxB.y + boxB.h)
      interArea == Max(0, xB - xA) * Max(0, yB - yA)
  IN IF interArea = 0 THEN <<0, 1>>
     ELSE <<interArea, Area(boxA) + Area(boxB) - interArea>>

\* detections.sort((a, b) => b.w * b.h - a.w * a.h): Array.prototype.sort is
\* stable, so element i lands behind the elements of larger area and behind
\* the earlier elements of equal area
Rank(d, i) ==
  1 + Cardinality({j \in 1..Len(d) :
                     \/ Area(d[j]) > Area(d[i])
                     \/ Area(d[j]) = Area(d[i]) /\ j < i})

SortByArea(d) == [k \in 1..Len(d) |-> d[CHOOSE i \in 1..Len(d) : Rank(d, i) = k]]

\* the outer loop of nonMaximumSuppression from index i on (1-based); S is
\* the set suppressed before the inner loop runs
RECURSIVE NmsLoop(_, _, _, _)
NmsLoop(d, i, suppressed, keep) ==
  IF i > Len(d) THEN keep
  ELSE IF i \in suppressed THEN NmsLoop(d, i + 1, suppressed, keep)
  ELSE NmsLoop(d, i + 1,
         UNION {S \cup {j \in (i + 1)..Len(d) :
                          /\ j \notin S
                          /\ RatioGreater(computeIOU(d[i], d[j]),
                                          <<OverlapThresholdNum, OverlapThresholdDen>>)} :
                S \in {suppressed}},
         Append(keep, d[i]))

nonMaximumSuppression(d) ==
  IF Len(d) = 0 THEN <<>>
  ELSE CHOOSE keep \in {NmsLoop(sorted, 1, {}, <<>>) : sorted \in {SortByArea(d)}} : TRUE

----------------------------------------------------------------------------
(* Boxes on the pixel grid, and their overlap counted pixel by pixel.      *)

BoxXs    == 0..2
BoxYs    == 0..1
BoxSizes == {<<2, 2>>, <<3, 2>>, <<7, 1>>}

Boxes == {[x |-> x, y |-> y, w |-> s[1], h |-> s[2]] : x \in BoxXs, y \in BoxYs, s \in BoxSizes}

ListsUpTo(S, n) == UNION {[1..k -> S] : k \in 0..n}

Pixels(b) == {<<c, r>> : c \in b.x..(b.x + b.w - 1), r \in b.y..(b.y + b.h - 1)}
InterPixels(a, b) == Cardinality(Pixels(a) \cap Pixels(b))
UnionPixels(a, b) == Cardinality(Pixels(a) \cup Pixels(b))

----------------------------------------------------------------------------
(* SpecNMS: nonMaximumSuppression applied to a list of detections.         *)

InitNMS ==
  /\ nmsIn \in ListsUpTo(Boxes, MaxDets)
  /\ nmsOut = <<>> /\ nmsDone = FALSE
  /\ NoImage /\ NoRectCall /\ NoTrack /\ NoScan

\* the argument is sorted in place
ApplyNMS ==
  /\ ~nmsDone
  /\ nmsOut' = nonMaximumSuppression(nmsIn)
  /\ nmsIn' = SortByArea(nmsIn)
  /\ nmsDone' = TRUE
  /\ UNCHANGED <<imgVars, rectVars, trackVars, scanVars>>

NextNMS == ApplyNMS

SpecNMS == InitNMS /\ [][NextNMS]_vars

\* C5: any two detections nonMaximumSuppression keeps overlap in at most 0.3
\* of their union.
C5_KeptBoxesOverlapLittle ==
  nmsDone =>
    \A i, j \in 1..Len(nmsOut) :
      i # j => OverlapThresholdDen * InterPixels(nmsOut[i], nmsOut[j])
                 <= OverlapThresholdNum * UnionPixels(nmsOut[i], nmsOut[j])

C5_Witness ==
  /\ nmsDone /\ Len(nmsIn) = 3 /\ Len(nmsOut) = 2
  /\ InterPixels(nmsOut[1], nmsOut[2]) > 0
  /\ \E k \in 1..3 : InterPixels(nmsIn[k], nmsOut[2]) > 0 /\ nmsIn[k] \notin {nmsOut[1], nmsOut[2]}

----------------------------------------------------------------------------
(* js/main.js: calculateIoU, selectBestFace, startDetection, processLoop.  *)
(* null is the empty sequence; a box b is held as <<b>>.                   *)

\* frameCount % 5 === 0
ProcessEvery == 5
\* bestScore < 0.1
MinScoreNum == 1
MinScoreDen == 10

calculateIoU(boxA, boxB) ==
  LET x1 == Max(boxA.x, boxB.x)
      y1 == Max(boxA.y, boxB.y)
      x2 == Min(boxA.x + boxA.w, boxB.x + boxB.w)
      y2 == Min(boxA.y + boxA.h, boxB.y + boxB.h)
      intersectionWidth  == Max(0, x2 - x1)
      intersectionHeight == Max(0, y2 - y1)
      intersectionArea   == intersectionWidth * intersectionHeight
  IN IF intersectionArea <= 0 THEN <<0, 1>>
     ELSE <<intersectionArea, Area(boxA) + Area(boxB) - intersectionArea>>

\* detections.reduce((largest, current) => current area > largest area ? ...)
RECURSIVE LargestFrom(_, _, _)
LargestFrom(d, i, largest) ==
  IF i > Len(d) THEN largest
  ELSE LargestFrom(d, i + 1, IF Area(d[i]) > Area(largest) THEN d[i] ELSE largest)

Largest(d) == LargestFrom(d, 2, d[1])

\* the loop of selectBestFace: the first detection of the highest positive score
RECURSIVE BestMatchFrom(_, _, _, _, _)
BestMatchFrom(d, prev, i, bestMatch, bestScore) ==
  IF i > Len(d) THEN [bestMatch |-> bestMatch, bestScore |-> bestScore]
  ELSE LET score == calculateIoU(prev, d[i])
       IN IF RatioGreater(score, bestScore)
          THEN BestMatchFrom(d, prev, i + 1, <<d[i]>>, score)
          ELSE BestMatchFrom(d, prev, i + 1, bestMatch, bestScore)

\* selectBestFace falling back to the largest face only when nothing overlaps
selectBestFaceNoFloor(dets, prev) ==
  IF Len(dets) = 0 THEN <<>>
  ELSE IF prev = <<>> THEN <<Largest(dets)>>
  ELSE LET m == BestMatchFrom(dets, prev[1], 1, <<>>, <<0, 1>>)
       IN IF m.bestMatch = <<>> THEN <<Largest(dets)>> ELSE m.bestMatch

\* selectBestFace keeping the previous box when nothing is detected
selectBestFaceKeepsBox(dets, prev) ==
  IF Len(dets) = 0 THEN prev
  ELSE IF prev = <<>> THEN <<Largest(dets)>>
  ELSE LET m == BestMatchFrom(dets, prev[1], 1, <<>>, <<0, 1>>)
       IN IF m.bestMatch = <<>> \/ RatioLess(m.bestScore, <<MinScoreNum, MinScoreDen>>)
          THEN <<Largest(dets)>>
          ELSE m.bestMatch

selectBestFace(dets, prev) ==
  IF Len(dets) = 0 THEN <<>>
  ELSE IF prev = <<>> THEN <<Largest(dets)>>
  ELSE LET m == BestMatchFrom(dets, prev[1], 1, <<>>, <<0, 1>>)
       IN IF m.bestMatch = <<>> \/ RatioLess(m.bestScore, <<MinScoreNum, MinScoreDen>>)
          THEN <<Largest(dets)>>
          ELSE m.bestMatch

----------------------------------------------------------------------------
(* SpecTrack: the frame loop.  What detectFaces returns for a frame is the *)
(* suppression of some list of raw detections.                             *)

FrameBoxes ==
  {[x |-> 2, y |-> 1, w |-> 7, h |-> 1], [x |-> 0, y |-> 0, w |-> 7, h |-> 1],
   [x |-> 0, y |-> 0, w |-> 3, h |-> 2], [x |-> 1, y |-> 0, w |-> 3, h |-> 2],
   [x |-> 0, y |-> 0, w |-> 2, h |-> 2], [x |-> 2, y |-> 1, w |-> 2, h |-> 2]}

InitTrack ==
  /\ NoTrack /\ NoImage /\ NoRectCall /\ NoNms /\ NoScan

\* startDetection, called once when the page loads; it gives up when the
\* video has no source
StartDetection ==
  /\ ~started
  /\ started' = TRUE
  /\ \E hasSrc \in BOOLEAN :
       IF running \/ ~hasSrc
       THEN UNCHANGED <<running, frameCount, currentFaceBox>>
       ELSE /\ running' = TRUE
            /\ frameCount' = 0
            /\ currentFaceBox' = <<>>
  /\ UNCHANGED <<frameDetections, previousBox, imgVars, rectVars, nmsVars, scanVars>>

\* processLoop: a callback is pending exactly while running holds
ProcessLoop ==
  /\ started /\ running /\ frameCount < MaxFrames
  /\ \E stopped \in BOOLEAN :
       IF stopped
       THEN /\ running' = FALSE
            /\ UNCHANGED <<frameCount, currentFaceBox, frameDetections, previousBox>>
       ELSE /\ frameCount' = frameCount + 1
            /\ UNCHANGED running
            /\ IF frameCount' % ProcessEvery = 0
               THEN \E raw \in ListsUpTo(FrameBoxes, MaxFrameDets) :
                      LET dets == nonMaximumSuppression(raw)
                      IN /\ frameDetections' = dets
                         /\ previousBox' = currentFaceBox
                         /\ currentFaceBox' = selectBestFace(dets, currentFaceBox)
               ELSE UNCHANGED <<currentFaceBox, frameDetections, previousBox>>
  /\ UNCHANGED <<started, imgVars, rectVars, nmsVars, scanVars>>

NextTrack == StartDetection \/ ProcessLoop

SpecTrack == InitTrack /\ [][NextTrack]_vars

\* previousBox overlaps every detection of the frame in less than 0.1 of their union
WeakMatchOnly ==
  /\ frameDetections # <<>> /\ previousBox # <<>>
  /\ \A c \in Elems(frameDetections) :
       MinScoreDen * InterPixels(previousBox[1], c) < MinScoreNum * UnionPixels(previousBox[1], c)

\* C6: when the previous box overlaps every candidate in less than 0.1 of
\* their union, the selected box is a candidate of the largest area.
C6_WeakMatchFallsBackToLargest ==
  WeakMatchOnly =>
    /\ currentFaceBox # <<>>
    /\ currentFaceBox[1] \in Elems(frameDetections)
    /\ \A c \in Elems(frameDetections) : Area(c) <= Area(currentFaceBox[1])

C6_Witness ==
  /\ WeakMatchOnly
  /\ \E c \in Elems(frameDetections) :
       /\ InterPixels(previousBox[1], c) > 0
       /\ InterPixels(previousBox[1], currentFaceBox[1]) = 0
       /\ Area(c) < Area(currentFaceBox[1])

ProcessedFrame == frameCount' = frameCount + 1 /\ frameCount' % ProcessEvery = 0

\* C9: currentFaceBox changes only in a step that processes a frame (the
\* frame count reaches a multiple of 5), and after such a step it is null if
\* the frame has no detection and otherwise one of the frame's detections.
C9_BoxChangesOnProcessedFramesOnly ==
  [][ /\ (currentFaceBox' # currentFaceBox) => ProcessedFrame
      /\ ProcessedFrame =>
           IF frameDetections' = <<>> THEN currentFaceBox' = <<>>
           ELSE /\ Len(currentFaceBox') = 1
                /\ currentFaceBox'[1] \in Elems(frameDetections') ]_vars

C9_Witness ==
  /\ frameCount > 2 * ProcessEvery /\ frameCount % ProcessEvery # 0
  /\ currentFaceBox = <<>> /\ previousBox # <<>> /\ frameDetections = <<>>

----------------------------------------------------------------------------
(* js/haar.js.  A scale is a ratio <<n, d>>.  With area = winW * winH,     *)
(* S the window's sum and Q its sum of squares, stdDev is sqrt(m) / area   *)
(* for m = max(Q * area - S * S, area * area), so the normalised value     *)
(* value * invArea / stdDev is value / sqrt(m): evaluateFeature returns    *)
(* the pair of value and m, and a threshold tn/td is compared with it by   *)
(* signs and squares.                                                      *)

RECURSIVE FeatureLoop(_, _, _, _, _, _, _, _)
FeatureLoop(rects, k, t, imageWidth, x, y, sc, value) ==
  IF k > Len(rects) THEN value
  ELSE LET r  == rects[k]
           rx == x + Round(r.x * sc[1], sc[2])
           ry == y + Round(r.y * sc[1], sc[2])
           rw == Round(r.width * sc[1], sc[2])
           rh == Round(r.height * sc[1], sc[2])
           s  == rectSum(t, imageWidth, rx, ry, rw, rh)
           v  == IF value.nan \/ s.nan THEN NaN ELSE Num(value.val + r.weight * s.val)
       IN FeatureLoop(rects, k + 1, t, imageWidth, x, y, sc, v)

evaluateFeature(feature, t, imageWidth, x, y, sc, invArea, stdDev) ==
  LET value == FeatureLoop(feature.rects, 1, t, imageWidth, x, y, sc, Num(0))
  IN [nan |-> value.nan \/ stdDev.nan, value |-> value.val, m |-> stdDev.m]

\* fVal < threshold; false when fVal is NaN
BelowThreshold(fVal, thr) ==
  LET L == fVal.value * thr[2]
      R == thr[1]
  IN /\ ~fVal.nan
     /\ \/ L < 0 /\ R >= 0
        \/ L >= 0 /\ R > 0 /\ L * L < R * R * fVal.m
        \/ L < 0 /\ R < 0 /\ L * L > R * R * fVal.m

RECURSIVE StageLoop(_, _, _, _, _, _, _, _, _, _, _)
StageLoop(wcs, k, feats, t, imageWidth, x, y, sc, invArea, stdDev, sum) ==
  IF k > Len(wcs) THEN sum
  ELSE LET wc == wcs[k]
           h  == IF \E fVal \in {evaluateFeature(feats[wc.featureIndex + 1], t, imageWidth,
                                                  x, y, sc, invArea, stdDev)} :
                      BelowThreshold(fVal, wc.threshold)
                 THEN wc.alpha ELSE wc.beta
       IN StageLoop(wcs, k + 1, feats, t, imageWidth, x, y, sc, invArea, stdDev, sum + h)

evaluateStage(stage, feats, t, imageWidth, x, y, sc, invArea, stdDev) ==
  StageLoop(stage.weakClassifiers, 1, feats, t, imageWidth, x, y, sc, invArea, stdDev, 0)
    >= stage.stageThreshold

\* lines 80-84 of evaluateCascade: the window's statistics
WindowStats(t, t2, imageWidth, x, y, w, h) ==
  LET area == w * h
      S    == rectSum(t, imageWidth, x, y, w, h)
      Q    == rectSum(t2, imageWidth, x, y, w, h)
  IN [invArea |-> area,
      stdDev  |-> [nan |-> S.nan \/ Q.nan,
                   m   |-> Max(Q.val * area - S.val * S.val, area * area)]]

\* the stage loop of evaluateCascade from stage k on; log lists the stages
\* evaluated, in the order of their evaluation
RECURSIVE CascadeLoop(_, _, _, _, _, _, _, _, _, _)
CascadeLoop(stages, k, feats, t, imageWidth, x, y, sc, st, log) ==
  IF k > Len(stages) THEN [isFace |-> TRUE, log |-> log]
  ELSE IF ~evaluateStage(stages[k], feats, t, imageWidth, x, y, sc, st.invArea, st.stdDev)
  THEN [isFace |-> FALSE, log |-> Append(log, k)]
  ELSE CascadeLoop(stages, k + 1, feats, t, imageWidth, x, y, sc, st, Append(log, k))

\* a stage loop that runs every stage and answers with the last one
RECURSIVE CascadeLoopNoExit(_, _, _, _, _, _, _, _, _, _, _)
CascadeLoopNoExit(stages, k, feats, t, imageWidth, x, y, sc, st, log, ok) ==
  IF k > Len(stages) THEN [isFace |-> ok, log |-> log]
  ELSE CascadeLoopNoExit(stages, k + 1, feats, t, imageWidth, x, y, sc, st, Append(log, k),
         evaluateStage(stages[k], feats, t, imageWidth, x, y, sc, st.invArea, st.stdDev))

evaluateCascadeNoExit(casc, feats, t, t2, imageWidth, x, y, sc, w, h) ==
  CHOOSE r \in {CascadeLoopNoExit(casc.stages, 1, feats, t, imageWidth, x, y, sc, st,
                                  <<>>, TRUE) :
                  st \in {WindowStats(t, t2, imageWidth, x, y, w, h)}} : TRUE

\* the statistics are computed once, then the stages run
evaluateCascade(casc, feats, t, t2, imageWidth, x, y, sc, w, h) ==
  CHOOSE r \in {CascadeLoop(casc.stages, 1, feats, t, imageWidth, x, y, sc, st, <<>>) :
                  st \in {WindowStats(t, t2, imageWidth, x, y, w, h)}} : TRUE

\* the rectangles handed to rectSum while the stages of log are evaluated at
\* window (x, y, w, h): the window itself (lines 80-81), then every rectangle
\* of every feature of those stages (lines 21-26)
RectSumCalls(casc, feats, log, x, y, sc, w, h) ==
  {[x |-> x, y |-> y, w |-> w, h |-> h]}
  \cup {[x |-> x + Round(r.x * sc[1], sc[2]), y |-> y + Round(r.y * sc[1], sc[2]),
         w |-> Round(r.width * sc[1], sc[2]), h |-> Round(r.height * sc[1], sc[2])] :
          r \in UNION {Elems(feats[wc.featureIndex + 1].rects) :
                        wc \in UNION {Elems(casc.stages[k].weakClassifiers) : k \in Elems(log)}}}

----------------------------------------------------------------------------
(* js/detector.js: detectFaces.                                            *)

\* scaleFactor = 1.2
DefaultScaleNum == 6
DefaultScaleDen == 5
\* minSize = cascade.baseWindowWidth || 24
DefaultMinSize == 24
\* step = Math.max(2, Math.floor(0.1 * winW))
MinStep == 2
StepTenth == 10

\* the destructuring defaults of lines 16-20; <<>> is an option left out
ResolveOptions(o, casc, w, h) ==
  [scaleFactor |-> IF o.scaleFactor = <<>> THEN <<DefaultScaleNum, DefaultScaleDen>>
                   ELSE o.scaleFactor,
   minSize     |-> IF o.minSize = <<>>
                   THEN (IF casc.baseWindowWidth # 0 THEN casc.baseWindowWidth
                         ELSE DefaultMinSize)
                   ELSE o.minSize[1],
   maxSize     |-> IF o.maxSize = <<>> THEN <<Min(w, h), 1>> ELSE o.maxSize]

\* baseW * scale <= maxSize && baseH * scale <= maxSize
FitsMaxSize(casc, sc, maxSize) ==
  /\ casc.baseWindowWidth * sc[1] * maxSize[2] <= maxSize[1] * sc[2]
  /\ casc.baseWindowHeight * sc[1] * maxSize[2] <= maxSize[1] * sc[2]

WindowWidth(casc, sc)  == Round(casc.baseWindowWidth * sc[1], sc[2])
WindowHeight(casc, sc) == Round(casc.baseWindowHeight * sc[1], sc[2])

Step(w) == Max(MinStep, Floor(w, StepTenth))

\* a scale update that leaves the scale as it is
KeepScale(sc, sf) == sc

\* scale *= scaleFactor
NextScale(sc, sf) == <<sc[1] * sf[1], sc[2] * sf[2]>>

----------------------------------------------------------------------------
(* The arguments of detectFaces that are followed.                         *)

ScanDims == {<<5, 5>>, <<4, 5>>}

ScanImages ==
  {[w |-> d[1], h |-> d[2], g |-> Ramp(d[1], d[2], k)] : d \in ScanDims, k \in 1..MaxPix}

Rect(x, y, w, h, weight) == [x |-> x, y |-> y, width |-> w, height |-> h, weight |-> weight]

\* features of a 2 x 2 base window: left against right, top against bottom,
\* and the two cells of the anti-diagonal
HaarFeatures ==
  << [tilted |-> 0, rects |-> <<Rect(0, 0, 2, 2, -1), Rect(0, 0, 1, 2, 2)>>],
     [tilted |-> 0, rects |-> <<Rect(0, 0, 2, 2, -1), Rect(0, 0, 2, 1, 2)>>],
     [tilted |-> 0, rects |-> <<Rect(1, 0, 1, 1, 1), Rect(0, 1, 1, 1, -1)>>] >>

Weak(f, thr, a, b) == [featureIndex |-> f, threshold |-> thr, alpha |-> a, beta |-> b]

StageDark  == [stageThreshold |-> 1, weakClassifiers |-> <<Weak(0, <<0, 1>>, 1, 0)>>]
StageMixed == [stageThreshold |-> 1,
               weakClassifiers |-> <<Weak(1, <<1, 2>>, 0, 1), Weak(2, <<-1, 2>>, 1, 0)>>]
StageAny   == [stageThreshold |-> 1, weakClassifiers |-> <<Weak(0, <<0, 1>>, 1, 1)>>]

Cascade(w, h, stages) == [baseWindowWidth |-> w, baseWindowHeight |-> h, stages |-> stages]

Cascades ==
  {Cascade(2, 2, <<StageDark>>), Cascade(2, 2, <<StageAny, StageDark>>),
   Cascade(2, 2, <<StageAny, StageMixed, StageDark>>), Cascade(3, 2, <<StageAny, StageMixed>>),
   Cascade(0, 0, <<StageDark>>)}

OptionSets ==
  [scaleFactor : {<<>>, <<3, 2>>, <<2, 1>>, <<1, 1>>, <<1, 2>>},
   minSize     : {<<>>, <<3>>, <<6>>},
   maxSize     : {<<>>, <<29, 10>>, <<5, 1>>}]

\* every rectangle of every feature lies inside the base window
RectsInsideBase(casc, feats) ==
  \A i \in 1..Len(feats) : \A r \in Elems(feats[i].rects) :
    /\ r.x >= 0 /\ r.y >= 0
    /\ r.x + r.width <= casc.baseWindowWidth
    /\ r.y + r.height <= casc.baseWindowHeight

----------------------------------------------------------------------------
(* Spec: one call of detectFaces, a step per pass through a loop head.     *)

Init ==
  /\ NoScan /\ NoImage /\ NoRectCall /\ NoNms /\ NoTrack

\* lines 15-32: the entry of detectFaces, to the head of the scale loop
DetectFacesEntry ==
  /\ pc = "idle"
  /\ \E im \in ScanImages, casc \in Cascades, o \in OptionSets :
       /\ gray' = im.g /\ width' = im.w /\ height' = im.h
       /\ cascade' = casc /\ features' = HaarFeatures
       /\ options' = ResolveOptions(o, casc, im.w, im.h)
       /\ LET t == computeIntegralImage(im.g, im.w, im.h)
          IN ii' = t.ii /\ ii2' = t.ii2
       /\ IF casc.baseWindowWidth = 0 \/ casc.baseWindowHeight = 0
          THEN pc' = "done" /\ outcome' = "returned"
          ELSE pc' = "scale" /\ outcome' = "none"
  /\ detections' = <<>> /\ result' = <<>> /\ scale' = <<1, 1>>
  /\ UNCHANGED <<winW, winH, wx, wy, evalCount, scaleIters, lastEval>>
  /\ UNCHANGED <<rectVars, nmsVars, trackVars>>

\* line 34 false, line 58: the scale loop ends and the detections are suppressed
ScaleLoopExit ==
  /\ pc = "scale"
  /\ ~FitsMaxSize(cascade, scale, options.maxSize)
  /\ result' = nonMaximumSuppression(detections)
  /\ detections' = SortByArea(detections)
  /\ pc' = "done" /\ outcome' = "returned"
  /\ UNCHANGED <<cascade, features, options, scale, winW, winH, wx, wy,
                 evalCount, scaleIters, lastEval>>
  /\ UNCHANGED <<imgVars, rectVars, nmsVars, trackVars>>

\* lines 34-41: the window is below minSize, on to the next scale
ScaleSkip ==
  /\ pc = "scale" /\ scaleIters < MaxScaleIters
  /\ FitsMaxSize(cascade, scale, options.maxSize)
  /\ LET w == WindowWidth(cascade, scale)
         h == WindowHeight(cascade, scale)
     IN /\ w < options.minSize \/ h < options.minSize
        /\ winW' = w /\ winH' = h
  /\ scale' = NextScale(scale, options.scaleFactor)
  /\ scaleIters' = scaleIters + 1
  /\ UNCHANGED <<cascade, features, options, pc, wx, wy, detections, outcome, result,
                 evalCount, lastEval>>
  /\ UNCHANGED <<imgVars, rectVars, nmsVars, trackVars>>

\* lines 34-46: the window is large enough, the scan of this scale begins
ScaleEnter ==
  /\ pc = "scale" /\ scaleIters < MaxScaleIters
  /\ FitsMaxSize(cascade, scale, options.maxSize)
  /\ LET w == WindowWidth(cascade, scale)
         h == WindowHeight(cascade, scale)
     IN /\ ~(w < options.minSize \/ h < options.minSize)
        /\ winW' = w /\ winH' = h
  /\ wx' = 0 /\ wy' = 0
  /\ pc' = "scan"
  /\ scaleIters' = scaleIters + 1
  /\ UNCHANGED <<cascade, features, options, scale, detections, outcome, result,
                 evalCount, lastEval>>
  /\ UNCHANGED <<imgVars, rectVars, nmsVars, trackVars>>

\* lines 47-52: one window of the row
ScanWindow ==
  /\ pc = "scan"
  /\ wy <= height - winH /\ wx <= width - winW
  /\ \E e \in {evaluateCascade(cascade, features, ii, ii2, width, wx, wy, scale, winW, winH)} :
        /\ lastEval' = <<[x |-> wx, y |-> wy, w |-> winW, h |-> winH, scale |-> scale,
                          isFace |-> e.isFace, log |-> e.log,
                          calls |-> RectSumCalls(cascade, features, e.log, wx, wy, scale,
                                                 winW, winH)]>>
        /\ detections' = IF e.isFace
                         THEN Append(detections, [x |-> wx, y |-> wy, w |-> winW, h |-> winH,
                                                  scale |-> scale])
                         ELSE detections
  /\ evalCount' = evalCount + 1
  /\ wx' = wx + Step(winW)
  /\ UNCHANGED <<cascade, features, options, pc, scale, winW, winH, wy, outcome, result,
                 scaleIters>>
  /\ UNCHANGED <<imgVars, rectVars, nmsVars, trackVars>>

\* line 47 false, line 46: the row is done, on to the next
ScanNextRow ==
  /\ pc = "scan"
  /\ wy <= height - winH /\ ~(wx <= width - winW)
  /\ wy' = wy + Step(winW) /\ wx' = 0
  /\ UNCHANGED <<cascade, features, options, pc, scale, winW, winH, detections, outcome,
                 result, evalCount, scaleIters, lastEval>>
  /\ UNCHANGED <<imgVars, rectVars, nmsVars, trackVars>>

\* line 46 false, line 55: the rows are done, on to the next scale
ScanNextScale ==
  /\ pc = "scan"
  /\ ~(wy <= height - winH)
  /\ scale' = NextScale(scale, options.scaleFactor)
  /\ pc' = "scale"
  /\ UNCHANGED <<cascade, features, options, winW, winH, wx, wy, detections, outcome,
                 result, evalCount, scaleIters, lastEval>>
  /\ UNCHANGED <<imgVars, rectVars, nmsVars, trackVars>>

Next ==
  \/ DetectFacesEntry
  \/ ScaleLoopExit
  \/ ScaleSkip
  \/ ScaleEnter
  \/ ScanWindow
  \/ ScanNextRow
  \/ ScanNextScale

Spec == Init /\ [][Next]_vars

\* detectFaces runs to completion on the one thread: once it is entered, the
\* step it is at is taken
SpecFair ==
  /\ Spec
  /\ WF_vars(ScaleLoopExit) /\ WF_vars(ScaleSkip) /\ WF_vars(ScaleEnter)
  /\ WF_vars(ScanWindow) /\ WF_vars(ScanNextRow) /\ WF_vars(ScanNextScale)

----------------------------------------------------------------------------
(* Claims about detectFaces and evaluateCascade.                           *)

Called == pc # "idle"

ValidBase == cascade.baseWindowWidth > 0 /\ cascade.baseWindowHeight > 0

ScaleFactorAboveOne == RatioGreater(options.scaleFactor, <<1, 1>>)

MinAboveMax == options.minSize * options.maxSize[2] > options.maxSize[1]

\* C1: a call with scaleFactor <= 1 is rejected at entry: it ends at once in
\* a configuration error, with no pass through the scale loop and no window
\* evaluated.
C1_BadScaleFactorRejected ==
  (Called /\ ValidBase /\ ~ScaleFactorAboveOne) =>
    /\ pc = "done" /\ outcome = "configError"
    /\ evalCount = 0 /\ scaleIters = 0

\* C2: a call with minSize > maxSize evaluates no window and ends in a
\* rejection, not in the return of a scan.
C2_MinAboveMaxRejected ==
  (Called /\ ValidBase /\ MinAboveMax) =>
    /\ evalCount = 0
    /\ pc = "done" => outcome = "rejected"

\* C7: for each window the stages evaluated are stages 1, 2, ... in that
\* order, every stage evaluated before the last one passes (so none is
\* evaluated after a failing one), and the window is a face exactly when every
\* stage of the cascade passes.
C7_StagesInOrderUntilFirstFailure ==
  lastEval # <<>> =>
    LET e  == lastEval[1]
        st == WindowStats(ii, ii2, width, e.x, e.y, e.w, e.h)
        n  == Len(cascade.stages)
        passes(k) == evaluateStage(cascade.stages[k], features, ii, width, e.x, e.y,
                                   e.scale, st.invArea, st.stdDev)
    IN /\ Len(e.log) <= n
       /\ \A i \in 1..Len(e.log) : e.log[i] = i
       /\ \A i \in 1..(Len(e.log) - 1) : passes(i)
       /\ \A k \in 1..n : ~passes(k) => Len(e.log) <= k
       /\ e.isFace <=> \A k \in 1..n : passes(k)

C7_Witness ==
  /\ lastEval # <<>> /\ Len(cascade.stages) = 3
  /\ lastEval[1].log = <<1, 2>> /\ ~lastEval[1].isFace
  /\ detections # <<>>

\* C8: a call with scaleFactor > 1 ends: the scale loop is left and the
\* call returns.
C8_ScanTerminates ==
  (Called /\ options.scaleFactor[1] > options.scaleFactor[2]) ~> (pc = "done")

C8_Witness ==
  /\ pc = "done" /\ ScaleFactorAboveOne /\ ValidBase
  /\ options.minSize > cascade.baseWindowWidth
  /\ evalCount > 0 /\ scaleIters >= 4

\* C10: with every feature rectangle inside the base window, every rectangle
\* handed to rectSum during a scan lies inside the image.
C10_RectSumCallsInsideImage ==
  (lastEval # <<>> /\ RectsInsideBase(cascade, features)) =>
    \A c \in lastEval[1].calls :
      /\ c.x >= 0 /\ c.y >= 0
      /\ c.x + c.w <= width /\ c.y + c.h <= height

====
